---------------------------- MODULE Spec2Model ----------------------------
(***************************************************************************)
(* Model of the spot-detection notebook                                    *)
(* (src/spot_detection_tutorial_beginner.ipynb).                           *)
(*                                                                         *)
(* The notebook is a sequence of cells: load the images, gaussian_high_pass*)
(* and detect_spots (the two functions it defines), the segmentation run   *)
(* by hand in the viewer, the nucleus centroids (regionprops_table), the   *)
(* nearest-nucleus assignment (cKDTree) and the color cycle of the points  *)
(* layer.                                                                  *)
(*                                                                         *)
(* Arrays are records [shape, data]: data is the flat C-order sequence of  *)
(* the array, shape the tuple of its side lengths.  Images are unsigned    *)
(* integers of 8 bits (uint8), as imread supplies them from 8-bit files;   *)
(* arithmetic on them is taken modulo 256, as numpy does.                  *)
(*                                                                         *)
(* The low pass of gaussian_high_pass is computed in the doubles of the    *)
(* library: every product and every sum is rounded to 53 bits, to nearest  *)
(* and to even on a tie, in the order in which correlate1d makes them, and *)
(* the result is truncated to the integer the output array holds.          *)
(*                                                                         *)
(* The response of the detector (blob_log) is held in binary fixed point   *)
(* with 48 fractional bits.  Two of its samples nearer than Tolerance are  *)
(* told apart by the last bits of the doubles only, which depend on the    *)
(* build (the exponential of the C library, fused multiply-adds): unless   *)
(* both are computed from the same values in the same places, the model    *)
(* leaves their order open and gives every result such a pair can decide.  *)
(***************************************************************************)
EXTENDS Integers, Sequences, FiniteSets, TLC

(***************************************************************************)
(* Bounds of the model.                                                    *)
(***************************************************************************)
\* bits of an image sample: the images are uint8 arrays
Width == 8
\* the 2-D images have Side2 rows and Side2 or Side2 + 1 columns
Side2 == 3
\* the 3-D images have Side3 planes of 2 rows and 3 columns
Side3 == 1

Modulus == 2 ^ Width
MaxVal == Modulus - 1

(***************************************************************************)
(* Arithmetic helpers.                                                     *)
(***************************************************************************)
Abs(x) == IF x < 0 THEN -x ELSE x

RECURSIVE Prod(_, _, _)
\* product of s[i..j]
Prod(s, i, j) == IF i > j THEN 1 ELSE s[i] * Prod(s, i + 1, j)

RECURSIVE SumTo(_, _, _)
\* sum of f[i..j]
SumTo(f, i, j) == IF i > j THEN 0 ELSE f[i] + SumTo(f, i + 1, j)

RECURSIVE BitLength(_)
\* the number of binary digits of n >= 0
BitLength(n) == IF n = 0 THEN 0 ELSE 1 + BitLength(n \div 2)

\* the k lowest binary digits of a limb x (all twelve for k >= 12, none for
\* k <= 0)
LowBits(x, k) == IF k <= 0 THEN 0 ELSE IF k >= 12 THEN x ELSE x % (2 ^ k)

(***************************************************************************)
(* Numbers are held in limbs of twelve bits.                               *)
(***************************************************************************)
Base == 2 ^ 12

(***************************************************************************)
(* The doubles of the low pass: <<v0, v1, ..., v6>> is the number          *)
(* v0 + v1 / Base + ... + v6 / Base^6 >= 0, with v0 < 2^10 its integer     *)
(* part and v1 .. v6 in 0 .. Base - 1.  A double below 2^10 whose last bit *)
(* is worth at least 2^-72 is such a number exactly.                       *)
(***************************************************************************)
\* the number c[1] + c[2] / Base + ... + c[7] / Base^6 for any c[i] >= 0
DoubleNormalise(c) ==
    LET d6 == c[6] + c[7] \div Base
        d5 == c[5] + d6 \div Base
        d4 == c[4] + d5 \div Base
        d3 == c[3] + d4 \div Base
        d2 == c[2] + d3 \div Base
    IN  <<c[1] + d2 \div Base, d2 % Base, d3 % Base, d4 % Base, d5 % Base,
          d6 % Base, c[7] % Base>>

\* the double nearest to v, the one with an even last bit when two are
\* equally near (IEEE 754 round-to-nearest-even, 53 significant bits)
RoundToDouble(v) ==
    LET top == CHOOSE i \in 1 .. 8 :
                  /\ i = 8 \/ v[i] # 0
                  /\ \A j \in 1 .. (i - 1) : v[j] = 0
        \* s binary digits are dropped
        s == 12 * (7 - top) + BitLength(v[top]) - 53
        l5 == LowBits(v[5], s - 24)
        l6 == LowBits(v[6], s - 12)
        l7 == LowBits(v[7], s)
        dropped == l5 * 2 ^ 24 + l6 * 2 ^ 12 + l7
        half == 2 ^ (s - 1)
        k == 7 - s \div 12
        unit == 2 ^ (s % 12)
        odd == (v[k] \div unit) % 2 = 1
        up == dropped > half \/ (dropped = half /\ odd)
        carry(i) == IF up /\ i = k THEN unit ELSE 0
    IN  IF top = 8 THEN v
        ELSE IF s <= 0 THEN v
        ELSE DoubleNormalise(<<v[1] + carry(1), v[2] + carry(2),
                               v[3] + carry(3), v[4] + carry(4),
                               v[5] - l5 + carry(5), v[6] - l6 + carry(6),
                               v[7] - l7 + carry(7)>>)

\* the double product n * w of an integer 0 <= n < 2^10 held in a double and
\* a weight w = w[1] / Base + ... + w[6] / Base^6
DoubleProduct(n, w) ==
    RoundToDouble(DoubleNormalise(<<0, n * w[1], n * w[2], n * w[3], n * w[4],
                                    n * w[5], n * w[6]>>))

\* the double sum x + y
DoubleSum(x, y) ==
    RoundToDouble(DoubleNormalise(<<x[1] + y[1], x[2] + y[2], x[3] + y[3],
                                    x[4] + y[4], x[5] + y[5], x[6] + y[6],
                                    x[7] + y[7]>>))

\* (npy_uint8) of a double: its integer part
Truncate(x) == x[1]

(***************************************************************************)
(* The doubles of the detector, in fixed point: <<v0, v1, v2, v3, v4>> is  *)
(* the number v0 + v1 / Base + ... + v4 / Base^4, with v0 its floor and    *)
(* v1 .. v4 in 0 .. Base - 1 (48 fractional bits).                         *)
(***************************************************************************)
\* the number c0 + c1 / Base + ... + c4 / Base^4 for any integers
Normalise(c0, c1, c2, c3, c4) ==
    LET d3 == c3 + c4 \div Base
        d2 == c2 + d3 \div Base
        d1 == c1 + d2 \div Base
    IN  <<c0 + d1 \div Base, d1 % Base, d2 % Base, d3 % Base, c4 % Base>>

\* a double that holds an integer
FixedOf(n) == <<n, 0, 0, 0, 0>>

\* x + y
FixedSum(x, y) ==
    Normalise(x[1] + y[1], x[2] + y[2], x[3] + y[3], x[4] + y[4], x[5] + y[5])

\* k * x for a small integer k
FixedScale(x, k) ==
    Normalise(k * x[1], k * x[2], k * x[3], k * x[4], k * x[5])

\* x < y
FixedLess(x, y) ==
    \/ x[1] < y[1]
    \/ x[1] = y[1] /\ x[2] < y[2]
    \/ x[1] = y[1] /\ x[2] = y[2] /\ x[3] < y[3]
    \/ x[1] = y[1] /\ x[2] = y[2] /\ x[3] = y[3] /\ x[4] < y[4]
    \/ x[1] = y[1] /\ x[2] = y[2] /\ x[3] = y[3] /\ x[4] = y[4] /\ x[5] < y[5]

\* 2^-32 grey levels: the fixed point is within 2^-36 of the doubles, and
\* the doubles of two builds within 2^-40 of each other
Tolerance == <<0, 0, 0, 2 ^ 4, 0>>

\* |x - y| <= Tolerance: the order of x and y is in the last bits of the
\* doubles
Near(x, y) ==
    LET d == FixedSum(x, FixedScale(y, -1))
        a == IF d[1] < 0 THEN FixedScale(d, -1) ELSE d
    IN  ~FixedLess(Tolerance, a)

(***************************************************************************)
(* numpy arrays: C-order flat indexing (0-based positions p, data[p+1]).   *)
(***************************************************************************)
NDim(shape) == Len(shape)
Size(shape) == Prod(shape, 1, Len(shape))
Stride(shape, axis) == Prod(shape, axis + 1, Len(shape))
Coord(shape, p, axis) == (p \div Stride(shape, axis)) % shape[axis]
Positions(shape) == 0 .. (Size(shape) - 1)
\* an array's samples as a tuple, computed once
Array(f) == SubSeq(f, 1, Len(f))

(***************************************************************************)
(* scipy.ndimage.gaussian_filter (called at line 123, and by blob_log).    *)
(***************************************************************************)
\* truncate = 4.0 standard deviations: radius = int(truncate * sigma + 0.5)
Radius(sigma) == (8 * sigma + 1) \div 2

\* _gaussian_kernel1d, order 0: the doubles exp(-0.5 / sigma^2 * k^2), each
\* divided by their sum over k = -radius .. radius (numpy.sum), for
\* k = 0 .. Radius(sigma).  A weight <<w1, ..., w6>> is the double
\* w1 / Base + ... + w6 / Base^6, exactly
GaussWeights(sigma) ==
    CASE sigma = 1 ->
            << <<1634, 296, 3101, 1619, 3776, 0>>,
               <<991, 471, 858, 2355, 1856, 0>>,
               <<221, 604, 3304, 3020, 3416, 0>>,
               <<18, 626, 1227, 2027, 617, 0>>,
               <<0, 2245, 1250, 2026, 2486, 768>> >>
      [] sigma = 2 ->
            << <<817, 197, 1039, 1487, 1664, 0>>,
               <<721, 173, 3893, 1587, 96, 0>>,
               <<495, 2313, 1020, 1134, 1440, 0>>,
               <<265, 1051, 1820, 3823, 880, 0>>,
               <<110, 2357, 73, 2047, 1192, 0>>,
               <<35, 3680, 2569, 3136, 1038, 0>>,
               <<9, 313, 2837, 2814, 1174, 2048>>,
               <<1, 3224, 2956, 1488, 3546, 1280>>,
               <<0, 1122, 2740, 1657, 86, 1728>> >>

\* mode = 'reflect' (d c b a | a b c d | d c b a): the source position of
\* line index i of a line of length n
Reflect(i, n) ==
    LET m == i % (2 * n)
    IN  IF m < n THEN m ELSE 2 * n - 1 - m

RECURSIVE SymmetricSum(_, _, _, _)
\* NI_Correlate1D, symmetric kernel: tmp += (line[l - d] + line[l + d]) *
\* w[d] for d = radius down to 1, every operation in doubles; pair[d] is
\* the sum of the two samples at distance d, an integer
SymmetricSum(pair, w, d, tmp) ==
    IF d = 0 THEN tmp
    ELSE SymmetricSum(pair, w, d - 1,
                      DoubleSum(tmp, DoubleProduct(pair[d], w[d + 1])))

\* mode = 'constant' instead: the samples outside the line count as 0
Correlate1dAtZeroPadded(data, shape, axis, w, p) ==
    LET r == Len(w) - 1
        n == shape[axis]
        st == Stride(shape, axis)
        c == Coord(shape, p, axis)
        at(k) == IF c + k \in 0 .. (n - 1) THEN data[p + k * st + 1] ELSE 0
        pair == Array([d \in 1 .. r |-> at(-d) + at(d)])
    IN  SymmetricSum(pair, w, r, DoubleProduct(data[p + 1], w[1]))

\* correlate1d along axis at position p of an integer array, mode
\* 'reflect': the double tmp = line[l] * w[0] and then the pairs, farthest
\* first, w[|k| + 1] the weight of the sample at distance k
Correlate1dAt(data, shape, axis, w, p) ==
    LET r == Len(w) - 1
        n == shape[axis]
        st == Stride(shape, axis)
        c == Coord(shape, p, axis)
        at(k) == data[p + (Reflect(c + k, n) - c) * st + 1]
        pair == Array([d \in 1 .. r |-> at(-d) + at(d)])
    IN  SymmetricSum(pair, w, r, DoubleProduct(data[p + 1], w[1]))

\* one pass of gaussian_filter1d into an output array of the input's
\* unsigned integer dtype: the C cast truncates the double result
GaussianFilter1dUInt(data, shape, axis, sigma) ==
    LET w == GaussWeights(sigma)
    IN  Array([q \in 1 .. Len(data) |->
                Truncate(Correlate1dAt(data, shape, axis, w, q - 1)) % Modulus])

RECURSIVE GaussianFilterAxes(_, _, _, _)
\* gaussian_filter: one 1-D pass per axis, each reading the previous output
GaussianFilterAxes(data, shape, axis, sigma) ==
    IF axis > NDim(shape) THEN data
    ELSE GaussianFilterAxes(GaussianFilter1dUInt(data, shape, axis, sigma),
                            shape, axis + 1, sigma)

ndi_gaussian_filter(image, sigma) ==
    [shape |-> image.shape,
     data |-> GaussianFilterAxes(image.data, image.shape, 1, sigma)]

(***************************************************************************)
(* gaussian_high_pass (lines 107-126).                                     *)
(***************************************************************************)
\* image - low_pass on two arrays of the same unsigned dtype: numpy
\* subtracts modulo 2^Width
gaussian_high_pass(image, sigma) ==
    LET low_pass == ndi_gaussian_filter(image, sigma)
        high_passed_im ==
            [shape |-> image.shape,
             data |-> Array([q \in 1 .. Len(image.data) |->
                                (image.data[q] - low_pass.data[q]) % Modulus])]
    IN  high_passed_im

\* a variant that subtracts in place (image -= low_pass) and returns image
gaussian_high_pass_in_place(image, sigma) ==
    [image |-> gaussian_high_pass(image, sigma),
     sigma |-> sigma,
     high_passed_im |-> gaussian_high_pass(image, sigma)]

\* the call gaussian_high_pass(image, sigma) at its return: the array the
\* caller passed in, as the call leaves it, and the array returned.  Lines
\* 123-124 make two new arrays and write to neither argument
gaussian_high_pass_locals(image, sigma) ==
    [image |-> image,
     sigma |-> sigma,
     high_passed_im |-> gaussian_high_pass(image, sigma)]

(***************************************************************************)
(* skimage.feature.blob_log (called at lines 208-213).                     *)
(*                                                                         *)
(* A float array is [shape, data, den]: sample q is the double data[q]     *)
(* grey levels, the intensity data[q] / den, with den = MaxVal.  A         *)
(* threshold is the rational intensity [num, den].                         *)
(***************************************************************************)
\* the weights of _gaussian_kernel1d, order 0, to 48 bits
GaussWeightsFixed(sigma) ==
    LET w == GaussWeights(sigma)
    IN  Array([k \in 1 .. Len(w) |-> <<w[k][1], w[k][2], w[k][3], w[k][4]>>])

\* _gaussian_kernel1d, order 2: the normalised Gaussian times
\* (k^2 / sigma^4 - 1 / sigma^2) = (k^2 - sigma^2) / sigma^4, to 48 bits;
\* the four parts of a negative weight are negative
Gauss2Weights(sigma) ==
    LET w == GaussWeights(sigma)
        n == sigma * sigma * sigma * sigma
        weight(k) ==
            LET q == k * k - sigma * sigma
                m == DoubleNormalise(<<0, Abs(q) * w[k + 1][1],
                                       Abs(q) * w[k + 1][2],
                                       Abs(q) * w[k + 1][3],
                                       Abs(q) * w[k + 1][4],
                                       Abs(q) * w[k + 1][5],
                                       Abs(q) * w[k + 1][6]>>)
                \* m / n, limb by limb
                r1 == m[1] % n
                r2 == (r1 * Base + m[2]) % n
                r3 == (r2 * Base + m[3]) % n
                r4 == (r3 * Base + m[4]) % n
                sign == IF q < 0 THEN -1 ELSE 1
            IN  <<sign * ((r1 * Base + m[2]) \div n),
                  sign * ((r2 * Base + m[3]) \div n),
                  sign * ((r3 * Base + m[4]) \div n),
                  sign * ((r4 * Base + m[5]) \div n)>>
    IN  Array([k \in 1 .. Len(w) |-> weight(k - 1)])

\* correlate1d at position p of a float array, mode 'reflect': the weighted
\* sum of the samples, kept to 48 bits
Correlate1dFloatAt(data, shape, axis, w, p) ==
    LET r == Len(w) - 1
        n == shape[axis]
        st == Stride(shape, axis)
        c == Coord(shape, p, axis)
        term == Array([j \in 1 .. (2 * r + 1) |->
                    LET x == data[p + (Reflect(c + j - 1 - r, n) - c) * st + 1]
                        v == w[Abs(j - 1 - r) + 1]
                    IN  <<x[1] * v[1],
                          x[1] * v[2] + x[2] * v[1],
                          x[1] * v[3] + x[2] * v[2] + x[3] * v[1],
                          x[1] * v[4] + x[2] * v[3] + x[3] * v[2] + x[4] * v[1]
                            + (x[2] * v[4] + x[3] * v[3] + x[4] * v[2]
                                 + x[5] * v[1]) \div Base>>])
        part(i) == SumTo([j \in 1 .. (2 * r + 1) |-> term[j][i]], 1, 2 * r + 1)
    IN  Normalise(0, part(1), part(2), part(3), part(4))

\* blob_log's default min_sigma, which the call leaves as it is
min_sigma == 1

\* img_as_float of an unsigned integer image: sample / MaxVal, that is
\* sample grey levels
img_as_float(image) ==
    [shape |-> image.shape,
     data |-> Array([q \in 1 .. Len(image.data) |-> FixedOf(image.data[q])]),
     den |-> MaxVal]

\* sigma_list: num_sigma values from min_sigma to max_sigma, both included;
\* a single value is the first one, min_sigma
sigma_list(max_sigma, num_sigma) ==
    [i \in 1 .. num_sigma |->
        IF num_sigma = 1 THEN min_sigma
        ELSE min_sigma + ((i - 1) * (max_sigma - min_sigma)) \div (num_sigma - 1)]

RECURSIVE DerivativeAxes(_, _, _, _, _)
\* gaussian_filter with order 2 along axis d and order 0 along the others,
\* in floating point, one pass per axis
DerivativeAxes(data, shape, axis, d, sigma) ==
    IF axis > NDim(shape) THEN data
    ELSE LET w == IF axis = d THEN Gauss2Weights(sigma)
                  ELSE GaussWeightsFixed(sigma)
             pass == Array([q \in 1 .. Len(data) |->
                               Correlate1dFloatAt(data, shape, axis, w, q - 1)])
         IN  DerivativeAxes(pass, shape, axis + 1, d, sigma)

\* ndi.gaussian_laplace: the sum over the axes of the second derivatives.
\* The result keeps the samples it was computed from (source) and the
\* radius of the kernels
gaussian_laplace(fimage, sigma) ==
    LET D == NDim(fimage.shape)
        second == Array([d \in 1 .. D |->
                            DerivativeAxes(fimage.data, fimage.shape, 1, d, sigma)])
    IN  [shape |-> fimage.shape,
         data |-> Array([q \in 1 .. Len(fimage.data) |->
                            Normalise(
                                SumTo([d \in 1 .. D |-> second[d][q][1]], 1, D),
                                SumTo([d \in 1 .. D |-> second[d][q][2]], 1, D),
                                SumTo([d \in 1 .. D |-> second[d][q][3]], 1, D),
                                SumTo([d \in 1 .. D |-> second[d][q][4]], 1, D),
                                SumTo([d \in 1 .. D |-> second[d][q][5]], 1, D))]),
         den |-> fimage.den,
         source |-> fimage.data,
         radius |-> Radius(sigma)]

\* one slice of image_cube: -gaussian_laplace(image, s) * mean(s) ** 2
ScaleNormalised(gl, sigma) ==
    [gl EXCEPT !.data = Array([q \in 1 .. Len(gl.data) |->
                                  FixedScale(gl.data[q], -(sigma * sigma))])]

gl_image(fimage, sigma) == ScaleNormalised(gaussian_laplace(fimage, sigma), sigma)

\* the samples p and q of the response are computed from the same values in
\* the same places: every sample within the kernels' radius of p, the
\* borders reflected, equals the one at the same offset from q.  The two
\* doubles are then equal in every build
SameWindow(cube, p, q) ==
    LET D == NDim(cube.shape)
        at(s, off) ==
            cube.source[
                SumTo([a \in 1 .. D |->
                          Reflect(Coord(cube.shape, s, a) + off[a],
                                  cube.shape[a]) * Stride(cube.shape, a)],
                      1, D) + 1]
    IN  \A off \in [1 .. D -> (-cube.radius) .. cube.radius] :
            at(p, off) = at(q, off)

\* the doubles of samples p and q can be in either order or equal: the
\* samples are near, not both exactly zero, and not computed alike
OpenOrder(cube, p, q) ==
    /\ p # q
    /\ Near(cube.data[p + 1], cube.data[q + 1])
    /\ ~(cube.data[p + 1] = FixedOf(0) /\ cube.data[q + 1] = FixedOf(0))
    /\ ~SameWindow(cube, p, q)

\* positions within one sample of p along every axis (the 3 x ... x 3
\* footprint; mode 'nearest' adds no value from outside the array)
Footprint(shape, p) ==
    {q \in Positions(shape) :
        \A a \in 1 .. NDim(shape) :
            Abs(Coord(shape, q, a) - Coord(shape, p, a)) <= 1}

RECURSIVE BinaryDigits(_, _, _)
\* <<the next n binary digits of r / den, the remainder>> for 0 <= r < den
BinaryDigits(r, den, n) ==
    IF n = 0 THEN <<0, r>>
    ELSE LET bit == IF 2 * r >= den THEN 1 ELSE 0
             rest == BinaryDigits(2 * r - bit * den, den, n - 1)
         IN  <<bit * 2 ^ (n - 1) + rest[1], rest[2]>>

\* the threshold in grey levels of an image of d grey levels per unit of
\* intensity: d * threshold.num / threshold.den, to 48 bits
ThresholdLevel(d, threshold) ==
    LET n == d * threshold.num
        l1 == BinaryDigits(n % threshold.den, threshold.den, 12)
        l2 == BinaryDigits(l1[2], threshold.den, 12)
        l3 == BinaryDigits(l2[2], threshold.den, 12)
        l4 == BinaryDigits(l3[2], threshold.den, 12)
    IN  <<n \div threshold.den, l1[1], l2[1], l3[1], l4[1]>>

\* image > threshold for one sample of x grey levels, x / d in intensity:
\* the comparison x / d > threshold.num / threshold.den
AboveThreshold(x, d, threshold) == FixedLess(ThresholdLevel(d, threshold), x)

\* the comparison is in the last bits of the double: x is near the
\* threshold (and is not an exact zero, which no positive threshold is below)
AtThreshold(x, d, threshold) ==
    x # FixedOf(0) /\ Near(x, ThresholdLevel(d, threshold))

RECURSIVE Beaten(_, _, _, _)
\* the candidates left out of L that have a greater neighbour when the open
\* pairs fall that way: next to a sample of L or to one that is no
\* candidate, or next to such a candidate in turn
Beaten(open, shape, out, sure) ==
    LET more == {p \in out \ sure :
                    \E q \in Footprint(shape, p) :
                        <<p, q>> \in open /\ q \in sure}
    IN  IF more = {} THEN sure \cap out
        ELSE Beaten(open, shape, out, sure \cup more)

\* _get_peak_mask: the masks peak_local_max can compute.  An image of one
\* sample is compared with the threshold alone (image.size == 1).
\* Otherwise the mask holds the samples equal to the maximum of their
\* footprint (maximum_filter), none of them when every sample is, and of
\* those the ones above threshold_abs.  A sample with no greater neighbour
\* but some in open order with it can be a maximum or not
PeakMask(cube, threshold) ==
    LET all == Positions(cube.shape)
        x(p) == cube.data[p + 1]
        open == {pq \in all \X all : OpenOrder(cube, pq[1], pq[2])}
        can == {p \in all :
                  \A q \in Footprint(cube.shape, p) :
                      <<p, q>> \in open \/ ~FixedLess(x(p), x(q))}
        must == {p \in can :
                   \A q \in Footprint(cube.shape, p) : <<p, q>> \notin open}
        maxima == IF Size(cube.shape) = 1 THEN {all}
                  ELSE {L \in {must \cup S : S \in SUBSET (can \ must)} :
                           Beaten(open, cube.shape, can \ L,
                                  L \cup (all \ can)) = can \ L}
        above(L) == {p \in L : AboveThreshold(x(p), cube.den, threshold)
                                /\ ~AtThreshold(x(p), cube.den, threshold)}
        at(L) == {p \in L : AtThreshold(x(p), cube.den, threshold)}
        masks(L) == IF Size(cube.shape) > 1 /\ L = all THEN {{}}
                    ELSE {above(L) \cup S : S \in SUBSET at(L)}
    IN  UNION {masks(L) : L \in maxima}

RECURSIVE SortPeaks(_, _)
\* the orders the peaks can have by decreasing intensity (a stable argsort
\* of -intensity: equal intensities stay in C order; two peaks in open
\* order can come either way)
SortPeaks(cube, peaks) ==
    IF peaks = {} THEN {<<>>}
    ELSE LET first == {p \in peaks :
                        \A q \in peaks \ {p} :
                            \/ OpenOrder(cube, p, q)
                            \/ FixedLess(cube.data[q + 1], cube.data[p + 1])
                            \/ cube.data[q + 1] = cube.data[p + 1] /\ p < q}
         IN  UNION {{<<p>> \o rest : rest \in SortPeaks(cube, peaks \ {p})} :
                       p \in first}

\* peak_local_max(image_cube, threshold_abs=threshold, exclude_border=False,
\* footprint=np.ones((3,) * image_cube.ndim)): the peaks of a mask, in their
\* order
peak_local_max(cube, threshold) ==
    UNION {SortPeaks(cube, mask) : mask \in PeakMask(cube, threshold)}

\* one row of blobs_log: the peak's coordinates, then its sigma
BlobRow(shape, p, sigma) ==
    [a \in 1 .. (NDim(shape) + 1) |->
        IF a <= NDim(shape) THEN Coord(shape, p, a) ELSE sigma]

SqDist(b1, b2) ==
    SumTo([a \in 1 .. (Len(b1) - 1) |-> (b1[a] - b2[a]) * (b1[a] - b2[a])],
          1, Len(b1) - 1)

\* _blob_overlap(b1, b2) > overlap (0.5) for two blobs of the same sigma 1:
\* the overlap fraction is 0.56 (disks) and 0.58 (spheres) for centres one
\* sample apart, and 0.39 and 0.42 for centres sqrt(2) apart
Overlapping(b1, b2) == SqDist(b1, b2) <= 1

RECURSIVE PruneFrom(_, _, _)
\* _prune_blobs: for each pair i < j of overlapping blobs, taken in the
\* iteration order of a Python set, the blob with the smaller sigma is
\* dropped, and blob i when the sigmas are equal (a blob already dropped has
\* sigma 0 and drops no other).  The sets of rows kept, over the orders:
\* row i stays when it has no overlapping row j > i, goes when such a row
\* stays, and may stay or go when all such rows go.
PruneFrom(blobs, i, kept) ==
    IF i = 0 THEN {kept}
    ELSE LET later == {j \in (i + 1) .. Len(blobs) :
                          Overlapping(blobs[i], blobs[j])}
         IN  IF later = {} THEN PruneFrom(blobs, i - 1, kept \cup {i})
             ELSE IF later \cap kept # {} THEN PruneFrom(blobs, i - 1, kept)
             ELSE PruneFrom(blobs, i - 1, kept \cup {i})
                    \cup PruneFrom(blobs, i - 1, kept)

RECURSIVE SelectRows(_, _, _)
\* the rows of blobs whose index is in kept, in their order
SelectRows(blobs, kept, i) ==
    IF i > Len(blobs) THEN <<>>
    ELSE (IF i \in kept THEN <<blobs[i]>> ELSE <<>>)
            \o SelectRows(blobs, kept, i + 1)

prune_blobs(blobs) ==
    {SelectRows(blobs, kept, 1) : kept \in PruneFrom(blobs, Len(blobs), {})}

\* the arrays blob_log can return: one row (coordinates..., sigma) per peak
\* of the scale-normalised Laplacian of Gaussian above the threshold; no
\* peak gives the empty array
blob_log(image, max_sigma, num_sigma, threshold) ==
    LET fimage == img_as_float(image)
        sigmas == sigma_list(max_sigma, num_sigma)
        lm(local_maxima) ==
            [i \in 1 .. Len(local_maxima) |->
                BlobRow(image.shape, local_maxima[i], sigmas[1])]
        pruned(local_maxima) ==
            IF local_maxima = <<>> THEN {<<>>}
            ELSE prune_blobs(lm(local_maxima))
    IN  UNION {pruned(local_maxima) :
                  local_maxima \in peak_local_max(gl_image(fimage, sigmas[1]),
                                                  threshold)}

(***************************************************************************)
(* detect_spots (lines 171-221).                                           *)
(***************************************************************************)
\* blobs_log[:, lo:hi]: the columns lo .. hi - 1 (0-based) of every row
Columns(rows, lo, hi) ==
    [i \in 1 .. Len(rows) |-> SubSeq(rows[i], lo + 1, hi)]

\* blobs_log[:, c]: column c (0-based) of every row
Column(rows, c) == [i \in 1 .. Len(rows) |-> rows[i][c + 1]]

\* rows in reverse order
Reversed(rows) == [i \in 1 .. Len(rows) |-> rows[Len(rows) + 1 - i]]

\* the call of blob_log at lines 208-213
DetectorCall(image, max_sigma, num_sigma, threshold) ==
    [image |-> image, max_sigma |-> max_sigma, num_sigma |-> num_sigma,
     threshold |-> threshold]

\* a slip: the coordinates taken from the rows in another order than the
\* sizes
detect_spots_misaligned(image, high_pass_sigma, spot_threshold, blob_sigma) ==
    LET filtered_spots == gaussian_high_pass(image, high_pass_sigma)
    IN  {[image |-> image,
          high_pass_sigma |-> high_pass_sigma,
          spot_threshold |-> spot_threshold,
          blob_sigma |-> blob_sigma,
          filtered_spots |-> filtered_spots,
          detector |-> DetectorCall(filtered_spots, blob_sigma, 1,
                                    spot_threshold),
          blobs_log |-> blobs_log,
          points_coords |-> Columns(Reversed(blobs_log), 0, 2),
          sizes |-> [i \in 1 .. Len(blobs_log) |->
                        3 * Column(blobs_log, 2)[i]]] :
            blobs_log \in blob_log(filtered_spots, blob_sigma, 1,
                                   spot_threshold)}

\* a slip: the detector run on the raw image instead of the filtered one
detect_spots_unfiltered(image, high_pass_sigma, spot_threshold, blob_sigma) ==
    LET filtered_spots == gaussian_high_pass(image, high_pass_sigma)
    IN  {[image |-> image,
          high_pass_sigma |-> high_pass_sigma,
          spot_threshold |-> spot_threshold,
          blob_sigma |-> blob_sigma,
          filtered_spots |-> filtered_spots,
          detector |-> DetectorCall(image, blob_sigma, 1, spot_threshold),
          blobs_log |-> blobs_log,
          points_coords |-> Columns(blobs_log, 0, 2),
          sizes |-> [i \in 1 .. Len(blobs_log) |->
                        3 * Column(blobs_log, 2)[i]]] :
            blobs_log \in blob_log(image, blob_sigma, 1, spot_threshold)}

\* a variant that keeps state between calls: it filters the caller's array
\* in place, so that the next call starts from the filtered image
detect_spots_in_place(image, high_pass_sigma, spot_threshold, blob_sigma) ==
    LET filtered_spots == gaussian_high_pass(image, high_pass_sigma)
    IN  {[image |-> filtered_spots,
          high_pass_sigma |-> high_pass_sigma,
          spot_threshold |-> spot_threshold,
          blob_sigma |-> blob_sigma,
          filtered_spots |-> filtered_spots,
          detector |-> DetectorCall(filtered_spots, blob_sigma, 1,
                                    spot_threshold),
          blobs_log |-> blobs_log,
          points_coords |-> Columns(blobs_log, 0, 2),
          sizes |-> [i \in 1 .. Len(blobs_log) |->
                        3 * Column(blobs_log, 2)[i]]] :
            blobs_log \in blob_log(filtered_spots, blob_sigma, 1,
                                   spot_threshold)}

\* what a call of detect_spots can return: its arguments as the call leaves
\* them, its locals after the last statement and the call it made to the
\* detector (the rounding of the doubles and blob_log's pruning order are
\* the choices)
detect_spots(image, high_pass_sigma, spot_threshold, blob_sigma) ==
    LET filtered_spots == gaussian_high_pass(image, high_pass_sigma)
    IN  {[image |-> image,
          high_pass_sigma |-> high_pass_sigma,
          spot_threshold |-> spot_threshold,
          blob_sigma |-> blob_sigma,
          filtered_spots |-> filtered_spots,
          detector |-> DetectorCall(filtered_spots, blob_sigma, 1,
                                    spot_threshold),
          blobs_log |-> blobs_log,
          points_coords |-> Columns(blobs_log, 0, 2),
          sizes |-> [i \in 1 .. Len(blobs_log) |->
                        3 * Column(blobs_log, 2)[i]]] :
            blobs_log \in blob_log(filtered_spots, blob_sigma, 1,
                                   spot_threshold)}

(***************************************************************************)
(* Nucleus centroids (lines 325-336): skimage.measure.regionprops_table    *)
(* and np.column_stack.  A centroid coordinate is the rational             *)
(* [num, den]: the sum of the region's pixel coordinates over its pixel    *)
(* count.                                                                  *)
(***************************************************************************)
RECURSIVE SortedSeq(_)
\* the elements of a set of integers in increasing order
SortedSeq(S) ==
    IF S = {} THEN <<>>
    ELSE LET m == CHOOSE x \in S : \A y \in S : x <= y
         IN  <<m>> \o SortedSeq(S \ {m})

RECURSIVE SumOver(_, _, _, _)
\* the sum of coordinate a over the positions of set P
SumOver(shape, P, a, acc) ==
    IF P = {} THEN acc
    ELSE LET p == CHOOSE x \in P : TRUE
         IN  SumOver(shape, P \ {p}, a, acc + Coord(shape, p, a))

\* the pixels of a label image that carry label l
Region(label_image, l) ==
    {p \in Positions(label_image.shape) : label_image.data[p + 1] = l}

\* a variant that takes the background for a region: a row for the value 0
\* too, when the image has a pixel of it
regionprops_table_with_background(label_image) ==
    LET present == {label_image.data[q] : q \in 1 .. Len(label_image.data)}
        label == SortedSeq(present)
        centroid(a) ==
            [i \in 1 .. Len(label) |->
                [num |-> SumOver(label_image.shape,
                                 Region(label_image, label[i]), a, 0),
                 den |-> Cardinality(Region(label_image, label[i]))]]
    IN  [label |-> label, centroid0 |-> centroid(1), centroid1 |-> centroid(2)]

\* one row per label present (0 is the background), in increasing label
\* order; a label image without labels gives empty columns
regionprops_table(label_image) ==
    LET present == {label_image.data[q] : q \in 1 .. Len(label_image.data)} \ {0}
        label == SortedSeq(present)
        centroid(a) ==
            [i \in 1 .. Len(label) |->
                [num |-> SumOver(label_image.shape,
                                 Region(label_image, label[i]), a, 0),
                 den |-> Cardinality(Region(label_image, label[i]))]]
    IN  [label |-> label, centroid0 |-> centroid(1), centroid1 |-> centroid(2)]

\* np.column_stack((a, b)): row i is (a[i], b[i])
column_stack(a, b) == [i \in 1 .. Len(a) |-> <<a[i], b[i]>>]

(***************************************************************************)
(* Nearest-nucleus assignment (lines 371-378): scipy.spatial.cKDTree.      *)
(* Indices are 1-based here: Python's index i is i + 1.                    *)
(***************************************************************************)
\* the squared Euclidean distance of point x (integer coordinates) to the
\* tree point c (rational coordinates), as the rational [num, den]
SqDistTo(x, c) ==
    [num |-> (x[1] * c[1].den - c[1].num) * (x[1] * c[1].den - c[1].num)
                 * c[2].den * c[2].den
             + (x[2] * c[2].den - c[2].num) * (x[2] * c[2].den - c[2].num)
                 * c[1].den * c[1].den,
     den |-> c[1].den * c[1].den * c[2].den * c[2].den]

\* d1 <= d2 for two non-negative rationals with positive denominators
RatLeq(d1, d2) == d1.num * d2.den <= d2.num * d1.den

\* the results kdt.query(x, k=1) can give for one point: the index of a
\* tree point at minimum distance (which one, among several at the same
\* distance, is the tree's choice); a tree without points has no neighbour
\* and reports the index n, one past its last point
QueryOne(data, x) ==
    IF Len(data) = 0 THEN {Len(data) + 1}
    ELSE {i \in 1 .. Len(data) :
            \A j \in 1 .. Len(data) :
                RatLeq(SqDistTo(x, data[i]), SqDistTo(x, data[j]))}

RECURSIVE kdt_query(_, _, _)
\* kdt.query(points, k=1)[1]: the index arrays the query can return, one
\* index per point, from point i on
kdt_query(data, points, i) ==
    IF i > Len(points) THEN {<<>>}
    ELSE {<<first>> \o rest :
            first \in QueryOne(data, points[i]),
            rest \in kdt_query(data, points, i + 1)}

\* nucleus_label_values[nearest_nucleus_ind]: numpy raises IndexError when
\* an index is out of bounds
IndexInBounds(values, ind) ==
    \A i \in 1 .. Len(ind) : ind[i] \in 1 .. Len(values)

\* a slip: the index taken for the label (labels 1, 2, ... in table order)
FancyIndexAsLabel(values, ind) == [i \in 1 .. Len(ind) |-> ind[i]]

FancyIndex(values, ind) == [i \in 1 .. Len(ind) |-> values[ind[i]]]

(***************************************************************************)
(* The color cycle of the points layer (lines 443-485) and the colors of   *)
(* the Labels layer (lines 535-537).  Colors are RGBA in units of 10^-8.   *)
(* napari is not part of the source: its categorical colormap and the      *)
(* setter of Labels.color are modelled from what the notebook says of them *)
(* and from the library's documented behaviour.                            *)
(***************************************************************************)
color_cycle ==
    << <<12156863, 46666667, 70588235, 100000000>>,
       <<100000000, 49803922, 5490196, 100000000>>,
       <<17254902, 62745098, 17254902, 100000000>>,
       <<83921569, 15294118, 15686275, 100000000>>,
       <<58039216, 40392157, 74117647, 100000000>>,
       <<54901961, 33725490, 29411765, 100000000>>,
       <<89019608, 46666667, 76078431, 100000000>>,
       <<49803922, 49803922, 49803922, 100000000>>,
       <<73725490, 74117647, 13333333, 100000000>>,
       <<9019608, 74509804, 81176471, 100000000>> >>

\* the distinct values in increasing order instead (np.unique's order)
SortedAppearance(values, seen) ==
    SortedSeq({values[i] : i \in 1 .. Len(values)} \ seen)

RECURSIVE FirstAppearance(_, _)
\* the distinct values of a sequence, in the order they first appear
FirstAppearance(values, seen) ==
    IF values = <<>> THEN <<>>
    ELSE IF Head(values) \in seen THEN FirstAppearance(Tail(values), seen)
    ELSE <<Head(values)>>
            \o FirstAppearance(Tail(values), seen \cup {Head(values)})

\* the categorical colormap of color_mode 'cycle': every property value not
\* yet in the map takes the next color of the cycle, which starts over after
\* its last color; the values are taken in their order of first appearance
CategoricalColormap(values, cycle) ==
    LET keys == FirstAppearance(values, {})
    IN  [l \in {keys[k] : k \in 1 .. Len(keys)} |->
            LET k == CHOOSE k \in 1 .. Len(keys) : keys[k] = l
            IN  cycle[((k - 1) % Len(cycle)) + 1]]

\* the key None of a color dict
NoneKey == -1

\* 'transparent' and 'black'
Transparent == <<0, 0, 0, 0>>
Black == <<0, 0, 0, 100000000>>

\* the setter of Labels.color: the dict it is given gets the background
\* label 0 as transparent and None as black where it lacks them, and keeps
\* its other entries
LabelsColorSetter(color) ==
    [k \in DOMAIN color \cup {0, NoneKey} |->
        IF k \in DOMAIN color THEN color[k]
        ELSE IF k = 0 THEN Transparent ELSE Black]

(***************************************************************************)
(* Inputs of the model.                                                    *)
(***************************************************************************)
\* most nuclei of a label image
MaxNuclei == 2
\* background and spot intensity of the images
BgLevel == 4
FgLevel == 50
\* intensity of a faint spot
DimLevel == 3

RECURSIVE SubsetsUpTo(_, _)
\* the subsets of S with at most k elements
SubsetsUpTo(S, k) ==
    IF k = 0 THEN {{}}
    ELSE LET prev == SubsetsUpTo(S, k - 1)
         IN  prev \cup {t \cup {x} : t \in prev, x \in S}

ImageOf(shape, bg, bright, fg) ==
    [shape |-> shape,
     data |-> Array([q \in 1 .. Size(shape) |->
                        IF (q - 1) \in bright THEN fg ELSE bg])]

Square2 == <<Side2, Side2>>
Shape2 == <<Side2, Side2 + 1>>
Shape3 == <<Side3, 2, 3>>
\* the shape of the images of the repeated calls
CallShape == <<3, 3>>

\* the images io.imread can supply: a constant background with at most one
\* bright pixel, 2-D (square or not) and 3-D; a faint pixel on a black
\* background; and the all-constant images
Images ==
    {ImageOf(Square2, bg, b, FgLevel) :
        bg \in {0, BgLevel}, b \in SubsetsUpTo(Positions(Square2), 1)}
    \cup
    {ImageOf(Shape2, bg, b, FgLevel) :
        bg \in {0, BgLevel}, b \in SubsetsUpTo(Positions(Shape2), 1)}
    \cup
    {ImageOf(Shape3, bg, b, FgLevel) :
        bg \in {0, BgLevel}, b \in SubsetsUpTo(Positions(Shape3), 1)}
    \cup
    {ImageOf(Shape2, 0, {p}, DimLevel) : p \in Positions(Shape2)}
    \cup
    {ImageOf(Shape3, 0, {p}, DimLevel) : p \in Positions(Shape3)}
    \cup
    {ImageOf(shape, c, {}, c) :
        shape \in {Shape2, Shape3}, c \in {0, BgLevel, FgLevel, MaxVal}}

\* the images of the whole session: 2-D, with at most one bright pixel, and
\* the square images with a bright pixel in the first row
SessionImages ==
    {ImageOf(Shape2, bg, b, FgLevel) :
        bg \in {0, BgLevel}, b \in SubsetsUpTo(Positions(Shape2), 1)}
    \cup
    {ImageOf(Square2, 0, {p}, FgLevel) : p \in 0 .. (Side2 - 1)}

\* the all-constant images: one sample of every level, and some levels in
\* every shape
ConstantLevels == {0, 1, DimLevel, BgLevel, 21, 23, FgLevel, 111, 200, MaxVal}

ConstantShapes ==
    {<<1, 1>>, <<1, 2>>, <<2, 1>>, <<2, 2>>, Square2, Shape2, Shape3}

ConstantImages ==
    {ImageOf(<<1, 1>>, c, {}, c) : c \in 0 .. MaxVal}
    \cup
    {ImageOf(shape, c, {}, c) : shape \in ConstantShapes, c \in ConstantLevels}

\* the images of the repeated calls: square, a bright pixel in a corner
CallImages ==
    {ImageOf(CallShape, bg, {0}, FgLevel) : bg \in {0, BgLevel}}

\* the sigmas (high_pass_sigma defaults to 2)
Sigmas == {1, 2}
\* the values of blob_sigma (default 2)
BlobSigmas == {2, 3}
\* spot_threshold, a rational intensity: the default 0.01, 0.1 and 0.001
Thresholds ==
    {[num |-> 1, den |-> 100], [num |-> 1, den |-> 10],
     [num |-> 1, den |-> 1000]}
\* positive thresholds from 10^-9 to 1
PositiveThresholds ==
    Thresholds \cup {[num |-> 1, den |-> 10 ^ 9], [num |-> 1, den |-> 10 ^ 6],
                     [num |-> 1, den |-> 1]}
\* the arguments of the repeated calls
CallArguments ==
    {[high_pass_sigma |-> 2, spot_threshold |-> [num |-> 1, den |-> 100],
      blob_sigma |-> 2],
     [high_pass_sigma |-> 1, spot_threshold |-> [num |-> 1, den |-> 100],
      blob_sigma |-> 2],
     [high_pass_sigma |-> 2, spot_threshold |-> [num |-> 1, den |-> 1000],
      blob_sigma |-> 3]}
\* most calls of detect_spots in a session of repeated calls
MaxCalls == 3

\* the regions a nucleus can cover: a corner pixel, or a left corner pixel
\* and its right neighbour
Corners(shape) ==
    {p \in Positions(shape) :
        \A a \in 1 .. NDim(shape) : Coord(shape, p, a) \in {0, shape[a] - 1}}

NucleusRegions(shape) ==
    {{p} : p \in Corners(shape)}
    \cup {{p, p + 1} : p \in {c \in Corners(shape) : Coord(shape, c, 2) = 0}}

\* sets of at most MaxNuclei pairwise disjoint regions
RegionSets(shape) ==
    {R \in SubsetsUpTo(NucleusRegions(shape), MaxNuclei) :
        \A r1, r2 \in R : r1 = r2 \/ r1 \cap r2 = {}}

\* the labels of the nuclei, in raster order of the regions: 1, 2, ... as
\* the segmentation gives them, or labels with gaps in decreasing order
Contiguous == [i \in 1 .. (MaxNuclei + 1) |-> i]
Gapped == [i \in 1 .. (MaxNuclei + 1) |-> 3 * (MaxNuclei + 2 - i) - 1]

\* the rank of region r among the regions R, by first pixel
RegionRank(R, r) ==
    Cardinality({r2 \in R : (CHOOSE p \in r2 : \A q \in r2 : p <= q)
                            <= (CHOOSE p \in r : \A q \in r : p <= q)})

LabelImageOf(shape, R, labels) ==
    [shape |-> shape,
     data |-> [q \in 1 .. Size(shape) |->
                  IF \E r \in R : (q - 1) \in r
                  THEN labels[RegionRank(R, CHOOSE r \in R : (q - 1) \in r)]
                  ELSE 0]]

\* the label images the segmentation can leave in the viewer
LabelImages(shape) ==
    {LabelImageOf(shape, R, labels) :
        R \in RegionSets(shape), labels \in {Contiguous, Gapped}}

(***************************************************************************)
(* The notebook session: the variables its cells bind, the layers of the   *)
(* viewer, and the cell to run next.                                       *)
(***************************************************************************)
VARIABLES
    pc,                     \* the cell to run next
    spots,                  \* the spots image (lines 42-43)
    filtered,               \* the call of the filter cell (lines 142-146)
    frame,                  \* the locals of the detect_spots call
    calls,                  \* the detect_spots calls of the cell run again
    spot_coords,            \* detect_spots' first result (lines 237-240)
    sizes,                  \* detect_spots' second result
    layers,                 \* the names of the viewer's layers
    mask_layer,             \* the Labels layer nuclei_cp_masks_000
    nuclei_labels,          \* line 300
    rp_table,               \* line 325
    nuclei_centroids,       \* line 334
    nearest_nucleus_ind,    \* line 374
    nearest_nucleus_label,  \* line 378
    spot_properties,        \* lines 418-420
    face_color,             \* lines 457-461
    pts_colormap,           \* pts._face.categorical_colormap.colormap
    spots_cmap,             \* line 518
    error,                  \* the exception that ended the session, or ""
    namespace               \* the names bound in the kernel

vars == <<pc, spots, filtered, frame, calls, spot_coords, sizes, layers,
          mask_layer, nuclei_labels, rp_table, nuclei_centroids, nearest_nucleus_ind,
          nearest_nucleus_label, spot_properties, face_color, pts_colormap,
          spots_cmap, error, namespace>>

NoArray == [shape |-> <<>>, data |-> <<>>]
NoThreshold == [num |-> 0, den |-> 1]
NoTable == [label |-> <<>>, centroid0 |-> <<>>, centroid1 |-> <<>>]
NoMap == [l \in {} |-> <<>>]

NoProperties == [nucleus_label |-> <<>>]

NoFaceColor == [colors |-> "", color_mode |-> "", categorical_colormap |-> <<>>]

NoCall == [image |-> NoArray, sigma |-> 0, high_passed_im |-> NoArray]

NoFrame ==
    [image |-> NoArray, high_pass_sigma |-> 0, spot_threshold |-> NoThreshold,
     blob_sigma |-> 0, filtered_spots |-> NoArray,
     detector |-> DetectorCall(NoArray, 0, 0, NoThreshold),
     blobs_log |-> <<>>, points_coords |-> <<>>, sizes |-> <<>>]

MaskLayerName == "nuclei_cp_masks_000"

\* line 271: the other layers the plugin adds with its default settings
OtherPluginLayers ==
    {"nuclei_cp_outlines_000", "nuclei_cp_cellprob_000", "nuclei_cp_flows_000"}

\* lines 42-43 and 66: the names bound by the first cells
Loaded == {"nuclei", "spots", "viewer"}

\* the names a cell binds when it runs to its end
BoundBy(cell) ==
    CASE cell = "filter" -> {"filtered"}
      [] cell = "detect" -> {"spot_coords", "sizes"}
      [] cell = "labels" -> {"nuclei_labels_layer", "nuclei_labels"}
      [] cell = "centroids" -> {"rp_table", "nuclei_centroids"}
      [] cell = "assign" -> {"kdt", "nearest_nucleus_ind",
                             "nucleus_label_values", "nearest_nucleus_label"}
      [] cell = "properties" -> {"spot_properties"}
      [] cell = "face_color" -> {"color_cycle", "face_color"}
      [] cell = "add_points" -> {"pts"}
      [] cell = "cmap" -> {"spots_cmap"}
      [] cell = "apply" -> {"nuclei_labels_layer"}
      [] OTHER -> {}

\* the variables no cell has bound yet
Unbound ==
    /\ filtered = NoCall
    /\ frame = NoFrame
    /\ calls = <<>>
    /\ spot_coords = <<>>
    /\ sizes = <<>>
    /\ layers = {"nuclei"}
    /\ mask_layer = [data |-> NoArray, color |-> NoMap]
    /\ nuclei_labels = NoArray
    /\ rp_table = NoTable
    /\ nuclei_centroids = <<>>
    /\ nearest_nucleus_ind = <<>>
    /\ nearest_nucleus_label = <<>>
    /\ spot_properties = NoProperties
    /\ face_color = NoFaceColor
    /\ pts_colormap = NoMap
    /\ spots_cmap = NoMap
    /\ error = ""
    /\ namespace = Loaded

\* after lines 42-69: the two images are loaded and the nuclei image is a
\* layer of the viewer
Init ==
    /\ pc = "view"
    /\ spots \in SessionImages
    /\ filtered = NoCall
    /\ frame = NoFrame
    /\ calls = <<>>
    /\ spot_coords = <<>>
    /\ sizes = <<>>
    /\ layers = {"nuclei"}
    /\ mask_layer = [data |-> NoArray, color |-> NoMap]
    /\ nuclei_labels = NoArray
    /\ rp_table = NoTable
    /\ nuclei_centroids = <<>>
    /\ nearest_nucleus_ind = <<>>
    /\ nearest_nucleus_label = <<>>
    /\ spot_properties = NoProperties
    /\ face_color = NoFaceColor
    /\ pts_colormap = NoMap
    /\ spots_cmap = NoMap
    /\ error = ""
    /\ namespace = Loaded

\* lines 76-87 as they are in the source: the cell holds only comments for
\* the learner; it binds no name and adds no layer
AddSpotsCellAsGiven ==
    /\ pc = "view"
    /\ pc' = "filter"
    /\ UNCHANGED <<spots, filtered, frame, calls, spot_coords, sizes, layers,
                   mask_layer, nuclei_labels, rp_table, nuclei_centroids,
                   nearest_nucleus_ind, nearest_nucleus_label,
                   spot_properties, face_color, pts_colormap, spots_cmap,
                   error, namespace>>

\* lines 142-146 as they are in the source: comments only
FilterCellAsGiven ==
    /\ pc = "filter"
    /\ pc' = "detect"
    /\ UNCHANGED <<spots, filtered, frame, calls, spot_coords, sizes, layers,
                   mask_layer, nuclei_labels, rp_table, nuclei_centroids,
                   nearest_nucleus_ind, nearest_nucleus_label,
                   spot_properties, face_color, pts_colormap, spots_cmap,
                   error, namespace>>

\* lines 237-240 as they are in the source: comments only; no statement of
\* the notebook binds spot_coords or sizes
DetectCellAsGiven ==
    /\ pc = "detect"
    /\ pc' = "shapes"
    /\ UNCHANGED <<spots, filtered, frame, calls, spot_coords, sizes, layers,
                   mask_layer, nuclei_labels, rp_table, nuclei_centroids,
                   nearest_nucleus_ind, nearest_nucleus_label,
                   spot_properties, face_color, pts_colormap, spots_cmap,
                   error, namespace>>

\* lines 78-88: the spots image added to the viewer
AddSpotsCell ==
    /\ pc = "view"
    /\ layers' = layers \cup {"spots"}
    /\ pc' = "filter"
    /\ UNCHANGED <<spots, filtered, frame, spot_coords, sizes, mask_layer,
                   nuclei_labels, rp_table, nuclei_centroids,
                   nearest_nucleus_ind, nearest_nucleus_label, pts_colormap,
                   spots_cmap, error, namespace, spot_properties, face_color,
                   calls>>

\* lines 142-146: the high-pass filter applied to the spots image
FilterCell ==
    /\ pc = "filter"
    /\ namespace' = namespace \cup BoundBy("filter")
    /\ \E sigma \in Sigmas :
          /\ filtered' = gaussian_high_pass_locals(spots, sigma)
          /\ spots' = filtered'.image
    /\ layers' = layers \cup {"filtered"}
    /\ pc' = "detect"
    /\ UNCHANGED <<frame, spot_coords, sizes, mask_layer, nuclei_labels,
                   rp_table, nuclei_centroids, nearest_nucleus_ind,
                   nearest_nucleus_label, pts_colormap, spots_cmap, error,
                   spot_properties, face_color, calls>>

\* lines 237-240: spot_coords, sizes = detect_spots(spots, ...)
DetectCell ==
    /\ pc = "detect"
    /\ namespace' = namespace \cup BoundBy("detect")
    /\ \E high_pass_sigma \in Sigmas, spot_threshold \in Thresholds,
          blob_sigma \in BlobSigmas :
          \E f \in detect_spots(spots, high_pass_sigma, spot_threshold,
                                blob_sigma) :
              /\ frame' = f
              /\ spots' = f.image
              /\ spot_coords' = f.points_coords
              /\ sizes' = f.sizes
    /\ layers' = layers \cup {"Points"}
    /\ pc' = "shapes"
    /\ UNCHANGED <<filtered, mask_layer, nuclei_labels, rp_table,
                   nuclei_centroids, nearest_nucleus_ind,
                   nearest_nucleus_label, pts_colormap, spots_cmap, error,
                   spot_properties, face_color, calls>>

\* lines 237-240 on an all-constant image, with any positive threshold
DetectCellAnyThreshold ==
    /\ pc = "detect"
    /\ namespace' = namespace \cup BoundBy("detect")
    /\ \E high_pass_sigma \in Sigmas, spot_threshold \in PositiveThresholds,
          blob_sigma \in BlobSigmas :
          \E f \in detect_spots(spots, high_pass_sigma, spot_threshold,
                                blob_sigma) :
              /\ frame' = f
              /\ spots' = f.image
              /\ spot_coords' = f.points_coords
              /\ sizes' = f.sizes
    /\ layers' = layers \cup {"Points"}
    /\ pc' = "shapes"
    /\ UNCHANGED <<filtered, calls, mask_layer, nuclei_labels, rp_table,
                   nuclei_centroids, nearest_nucleus_ind,
                   nearest_nucleus_label, spot_properties, face_color,
                   pts_colormap, spots_cmap, error>>

\* what a call can return, of the outcomes `returns` the model keeps for it,
\* in a session that has made the calls `made`: what the same call returned
\* before, when it was made before
SameAsBefore(made, returns) ==
    LET before == {made[i] : i \in 1 .. Len(made)} \cap returns
    IN  IF before = {} THEN returns ELSE before

\* lines 226-240: the detect cell run again with other parameters ("each
\* time you run the cell, the new results are added as an addition Points
\* layer").  The rounding of the doubles and the order of a Python set are
\* those of the installation, the same in every call: a call that the
\* session has made before returns what it returned then
DetectCellRerun ==
    /\ pc \in {"detect", "shapes"}
    /\ Len(calls) < MaxCalls
    /\ namespace' = namespace \cup BoundBy("detect")
    /\ \E args \in CallArguments :
          \E f \in SameAsBefore(calls,
                                detect_spots(spots, args.high_pass_sigma,
                                             args.spot_threshold,
                                             args.blob_sigma)) :
              /\ frame' = f
              /\ spots' = f.image
              /\ spot_coords' = f.points_coords
              /\ sizes' = f.sizes
              /\ calls' = Append(calls, f)
    /\ layers' = layers \cup {"Points"}
    /\ pc' = "shapes"
    /\ UNCHANGED <<filtered, mask_layer, nuclei_labels, rp_table,
                   nuclei_centroids, nearest_nucleus_ind,
                   nearest_nucleus_label, spot_properties, face_color,
                   pts_colormap, spots_cmap, error>>

\* lines 142-146: the filter cell run again between two runs of the detect
\* cell
FilterCellRerun ==
    /\ pc \in {"detect", "shapes"}
    /\ namespace' = namespace \cup BoundBy("filter")
    /\ \E sigma \in Sigmas :
          /\ filtered' = gaussian_high_pass_locals(spots, sigma)
          /\ spots' = filtered'.image
    /\ layers' = layers \cup {"filtered"}
    /\ UNCHANGED <<pc, frame, calls, spot_coords, sizes, mask_layer,
                   nuclei_labels, rp_table, nuclei_centroids,
                   nearest_nucleus_ind, nearest_nucleus_label,
                   spot_properties, face_color, pts_colormap, spots_cmap,
                   error>>

\* lines 252-267: the plugin is started on the nuclei layer and the Shapes
\* layer is added, on which the diameter of a nucleus is drawn
AddShapesStep ==
    /\ pc = "shapes"
    /\ layers' = layers \cup {"Shapes"}
    /\ pc' = "run_segmentation"
    /\ UNCHANGED <<spots, filtered, frame, spot_coords, sizes, mask_layer,
                   nuclei_labels, rp_table, nuclei_centroids,
                   nearest_nucleus_ind, nearest_nucleus_label,
                   spot_properties, face_color, pts_colormap, spots_cmap,
                   error, namespace, calls>>

\* line 269: the "run segmentation" button; the segmentation then runs
RunSegmentationStep ==
    /\ pc = "run_segmentation"
    /\ pc' = "segment"
    /\ UNCHANGED <<spots, filtered, frame, spot_coords, sizes, layers,
                   mask_layer, nuclei_labels, rp_table, nuclei_centroids,
                   nearest_nucleus_ind, nearest_nucleus_label,
                   spot_properties, face_color, pts_colormap, spots_cmap,
                   error, namespace, calls>>

\* line 271: the segmentation of the 2-D nuclei image completes and adds
\* its layers to the viewer, the Labels layer among them
SegmentStep ==
    /\ pc = "segment"
    /\ namespace' = namespace \cup BoundBy("segment")
    /\ NDim(spots.shape) = 2
    /\ \E label_image \in LabelImages(spots.shape) :
          mask_layer' = [mask_layer EXCEPT !.data = label_image]
    /\ layers' = layers \cup {MaskLayerName} \cup OtherPluginLayers
    /\ pc' = "labels"
    /\ UNCHANGED <<spots, filtered, frame, spot_coords, sizes, nuclei_labels,
                   rp_table, nuclei_centroids, nearest_nucleus_ind,
                   nearest_nucleus_label, pts_colormap, spots_cmap, error,
                   spot_properties, face_color, calls>>

\* lines 298-300
LabelsCell ==
    /\ pc = "labels"
    /\ namespace' = namespace \cup BoundBy("labels")
    /\ MaskLayerName \in layers
    /\ nuclei_labels' = mask_layer.data
    /\ pc' = "centroids"
    /\ UNCHANGED <<spots, filtered, frame, spot_coords, sizes, layers,
                   mask_layer, rp_table, nuclei_centroids,
                   nearest_nucleus_ind, nearest_nucleus_label, pts_colormap,
                   spots_cmap, error, spot_properties, face_color, calls>>

\* lines 320-336
CentroidsCell ==
    /\ pc = "centroids"
    /\ namespace' = namespace \cup BoundBy("centroids")
    /\ rp_table' = regionprops_table(nuclei_labels)
    /\ nuclei_centroids' = column_stack(rp_table'.centroid0, rp_table'.centroid1)
    /\ pc' = "assign"
    /\ UNCHANGED <<spots, filtered, frame, spot_coords, sizes, layers,
                   mask_layer, nuclei_labels, nearest_nucleus_ind,
                   nearest_nucleus_label, pts_colormap, spots_cmap, error,
                   spot_properties, face_color, calls>>

\* a variant with a recovery the notebook does not have: without centroids
\* every spot gets the background label 0 and the session goes on
AssignCellRecovering ==
    /\ pc = "assign"
    /\ namespace' = namespace \cup BoundBy("assign")
    /\ \E ind \in kdt_query(nuclei_centroids, spot_coords, 1) :
          /\ nearest_nucleus_ind' = ind
          /\ nearest_nucleus_label' =
                IF IndexInBounds(rp_table.label, ind)
                THEN FancyIndex(rp_table.label, ind)
                ELSE [i \in 1 .. Len(ind) |-> 0]
    /\ pc' = "properties"
    /\ UNCHANGED <<spots, filtered, frame, spot_coords, sizes, layers,
                   mask_layer, nuclei_labels, rp_table, nuclei_centroids,
                   pts_colormap, spots_cmap, error, spot_properties,
                   face_color, calls>>

\* lines 368-378: the index of the nearest centroid of every spot, then its
\* label.  Line 374 reads spot_coords: when no cell has bound it the cell
\* ends there with Python's NameError, after line 371 has bound kdt.  The
\* cell ends at line 378 with numpy's IndexError when an index is out of the
\* label column's bounds
AssignCell ==
    /\ pc = "assign"
    /\ IF "spot_coords" \notin namespace
       THEN /\ nearest_nucleus_ind' = nearest_nucleus_ind
            /\ nearest_nucleus_label' = nearest_nucleus_label
            /\ pc' = "failed"
            /\ error' = "NameError"
            /\ namespace' = namespace \cup {"kdt"}
       ELSE \E ind \in kdt_query(nuclei_centroids, spot_coords, 1) :
              /\ nearest_nucleus_ind' = ind
              /\ IF IndexInBounds(rp_table.label, ind)
                 THEN /\ nearest_nucleus_label'
                            = FancyIndex(rp_table.label, ind)
                      /\ pc' = "properties"
                      /\ error' = error
                      /\ namespace' = namespace \cup BoundBy("assign")
                 ELSE /\ nearest_nucleus_label' = nearest_nucleus_label
                      /\ pc' = "failed"
                      /\ error' = "IndexError"
                      /\ namespace' =
                            namespace \cup (BoundBy("assign")
                                               \ {"nearest_nucleus_label"})
    /\ UNCHANGED <<spots, filtered, frame, calls, spot_coords, sizes, layers,
                   mask_layer, nuclei_labels, rp_table, nuclei_centroids,
                   spot_properties, face_color, pts_colormap, spots_cmap>>

\* lines 418-420: the properties table of the points
SpotPropertiesCell ==
    /\ pc = "properties"
    /\ namespace' = namespace \cup BoundBy("properties")
    /\ spot_properties' = [nucleus_label |-> nearest_nucleus_label]
    /\ pc' = "face_color"
    /\ UNCHANGED <<spots, filtered, frame, spot_coords, sizes, layers,
                   mask_layer, nuclei_labels, rp_table, nuclei_centroids,
                   nearest_nucleus_ind, nearest_nucleus_label, face_color,
                   pts_colormap, spots_cmap, error, calls>>

\* lines 442-461: the color cycle and the face color options
FaceColorCell ==
    /\ pc = "face_color"
    /\ namespace' = namespace \cup BoundBy("face_color")
    /\ face_color' = [colors |-> "nucleus_label",
                      color_mode |-> "cycle",
                      categorical_colormap |-> color_cycle]
    /\ pc' = "add_points"
    /\ UNCHANGED <<spots, filtered, frame, spot_coords, sizes, layers,
                   mask_layer, nuclei_labels, rp_table, nuclei_centroids,
                   nearest_nucleus_ind, nearest_nucleus_label,
                   spot_properties, pts_colormap, spots_cmap, error, calls>>

\* lines 477-484: the points layer, its face color cycling over the
\* property that face_color names
AddPointsCell ==
    /\ pc = "add_points"
    /\ namespace' = namespace \cup BoundBy("add_points")
    /\ pts_colormap' = CategoricalColormap(spot_properties[face_color.colors],
                                           face_color.categorical_colormap)
    /\ layers' = layers \cup {"assigned_spots"}
    /\ pc' = "cmap"
    /\ UNCHANGED <<spots, filtered, frame, spot_coords, sizes, mask_layer,
                   nuclei_labels, rp_table, nuclei_centroids,
                   nearest_nucleus_ind, nearest_nucleus_label,
                   spot_properties, face_color, spots_cmap, error, calls>>

\* lines 516-519: spots_cmap is the dict of the points layer itself, not a
\* copy
CmapCell ==
    /\ pc = "cmap"
    /\ namespace' = namespace \cup BoundBy("cmap")
    /\ spots_cmap' = pts_colormap
    /\ pc' = "apply"
    /\ UNCHANGED <<spots, filtered, frame, calls, spot_coords, sizes, layers,
                   mask_layer, nuclei_labels, rp_table, nuclei_centroids,
                   nearest_nucleus_ind, nearest_nucleus_label,
                   spot_properties, face_color, pts_colormap, error>>

\* lines 535-537: the setter of Labels.color completes the dict it is given,
\* which is spots_cmap and the dict of the points layer
ApplyCell ==
    /\ pc = "apply"
    /\ namespace' = namespace \cup BoundBy("apply")
    /\ LET color == LabelsColorSetter(spots_cmap)
       IN  /\ mask_layer' = [mask_layer EXCEPT !.color = color]
           /\ spots_cmap' = color
           /\ pts_colormap' = color
    /\ pc' = "done"
    /\ UNCHANGED <<spots, filtered, frame, calls, spot_coords, sizes, layers,
                   nuclei_labels, rp_table, nuclei_centroids,
                   nearest_nucleus_ind, nearest_nucleus_label,
                   spot_properties, face_color, error>>

Next ==
    \/ AddSpotsCell
    \/ FilterCell
    \/ DetectCell
    \/ AddShapesStep
    \/ RunSegmentationStep
    \/ SegmentStep
    \/ LabelsCell
    \/ CentroidsCell
    \/ AssignCell
    \/ SpotPropertiesCell
    \/ FaceColorCell
    \/ AddPointsCell
    \/ CmapCell
    \/ ApplyCell

Spec == Init /\ [][Next]_vars

(***************************************************************************)
(* The notebook as it is in the source: the three cells left to the        *)
(* learner hold only comments.                                             *)
(***************************************************************************)
NextSource ==
    \/ AddSpotsCellAsGiven
    \/ FilterCellAsGiven
    \/ DetectCellAsGiven
    \/ AddShapesStep
    \/ RunSegmentationStep
    \/ SegmentStep
    \/ LabelsCell
    \/ CentroidsCell
    \/ AssignCell

SpecSource == Init /\ [][NextSource]_vars

(***************************************************************************)
(* The two functions alone, on every image of the model.                   *)
(***************************************************************************)
InitFilter == pc = "filter" /\ spots \in Images /\ Unbound

SpecFilter == InitFilter /\ [][FilterCell]_vars

InitDetect == pc = "detect" /\ spots \in Images /\ Unbound

SpecDetect == InitDetect /\ [][DetectCell]_vars

(***************************************************************************)
(* detect_spots on the all-constant images, with any positive threshold.   *)
(***************************************************************************)
InitConstant == pc = "detect" /\ spots \in ConstantImages /\ Unbound

SpecConstant == InitConstant /\ [][DetectCellAnyThreshold]_vars

(***************************************************************************)
(* The detect cell run again and again, the filter cell in between.        *)
(***************************************************************************)
InitCalls == pc = "detect" /\ spots \in CallImages /\ Unbound

NextCalls ==
    \/ DetectCellRerun
    \/ FilterCellRerun

SpecCalls == InitCalls /\ [][NextCalls]_vars

(***************************************************************************)
(* The coloring cells alone, on label arrays with more distinct labels     *)
(* than the cycle has colors.                                              *)
(***************************************************************************)
\* labels 1 .. NumLabels
NumLabels == 12
\* most spots of a label array
MaxSpots == 14

\* the labels start + 1, start + stride + 1, ... modulo NumLabels
LabelArray(n, start, stride) ==
    [i \in 1 .. n |-> ((start + (i - 1) * stride) % NumLabels) + 1]

LabelArrays ==
    {LabelArray(n, start, stride) :
        n \in 0 .. MaxSpots, start \in 0 .. (NumLabels - 1),
        stride \in {0, 1, 4, 5, 7}}

InitColor ==
    /\ pc = "properties"
    /\ spots = ImageOf(Shape2, 0, {}, 0)
    /\ filtered = NoCall
    /\ frame = NoFrame
    /\ calls = <<>>
    /\ nearest_nucleus_label \in LabelArrays
    /\ spot_coords = [i \in 1 .. Len(nearest_nucleus_label) |-> <<0, 0>>]
    /\ sizes = [i \in 1 .. Len(nearest_nucleus_label) |-> 3]
    /\ layers = {"nuclei", "spots", "filtered", "Points", "Shapes",
                 MaskLayerName} \cup OtherPluginLayers
    /\ mask_layer = [data |-> NoArray, color |-> NoMap]
    /\ nuclei_labels = NoArray
    /\ rp_table = NoTable
    /\ nuclei_centroids = <<>>
    /\ nearest_nucleus_ind = <<>>
    /\ spot_properties = NoProperties
    /\ face_color = NoFaceColor
    /\ pts_colormap = NoMap
    /\ spots_cmap = NoMap
    /\ error = ""
    /\ namespace = Loaded \cup BoundBy("filter") \cup BoundBy("detect")
                     \cup BoundBy("labels") \cup BoundBy("centroids")
                     \cup BoundBy("assign")

NextColor ==
    \/ SpotPropertiesCell
    \/ FaceColorCell
    \/ AddPointsCell
    \/ CmapCell
    \/ ApplyCell

SpecColor == InitColor /\ [][NextColor]_vars

(***************************************************************************)
(* Properties of gaussian_high_pass, under SpecFilter.                     *)
(***************************************************************************)
FilterDone == filtered # NoCall

\* the low-pass image of the filter cell's call
LowPassOfCall == ndi_gaussian_filter(filtered.image, filtered.sigma)

\* C1: the high-pass image has the shape of the input, and adding the
\* low-pass image of the same sigma to it gives the input back at every
\* pixel
C1_HighPassPlusLowPass ==
    FilterDone =>
        /\ filtered.high_passed_im.shape = filtered.image.shape
        /\ Len(filtered.high_passed_im.data) = Len(filtered.image.data)
        /\ \A q \in 1 .. Len(filtered.image.data) :
              filtered.high_passed_im.data[q] + LowPassOfCall.data[q]
                  = filtered.image.data[q]

\* C2: the high-pass image is the signed difference original - low_pass at
\* every pixel, negative where the low-pass value exceeds the original
C2_SignedDifference ==
    FilterDone =>
        \A q \in 1 .. Len(filtered.image.data) :
            filtered.high_passed_im.data[q]
                = filtered.image.data[q] - LowPassOfCall.data[q]

(***************************************************************************)
(* Properties of detect_spots, under SpecDetect.                           *)
(***************************************************************************)
DetectDone == frame # NoFrame

\* C3: the coordinate array holds all D coordinates of every blob of the
\* detector, and the size array 3 times its sigma column
C3_AllCoordinates ==
    DetectDone =>
        LET D == NDim(frame.image.shape)
        IN  /\ Len(spot_coords) = Len(frame.blobs_log)
            /\ Len(sizes) = Len(frame.blobs_log)
            /\ \A i \in 1 .. Len(frame.blobs_log) :
                  /\ spot_coords[i] = SubSeq(frame.blobs_log[i], 1, D)
                  /\ sizes[i] = 3 * frame.blobs_log[i][D + 1]

\* C4: the two arrays returned have the length of the detector's output,
\* and entry i of each comes from row i of it
C4_IndexAligned ==
    DetectDone =>
        /\ Len(spot_coords) = Len(sizes)
        /\ Len(spot_coords) = Len(frame.blobs_log)
        /\ \A i \in 1 .. Len(frame.blobs_log) :
              /\ \A a \in 1 .. Len(spot_coords[i]) :
                    spot_coords[i][a] = frame.blobs_log[i][a]
              /\ sizes[i] = 3 * frame.blobs_log[i][3]

\* a call on a square image that found two blobs or more, which the
\* detector can emit in either order
C4_Witness ==
    /\ DetectDone
    /\ frame.image.shape = Square2
    /\ Len(frame.blobs_log) >= 2
    /\ spot_coords[1] # spot_coords[2]

\* the response of the detector, at its single scale, to the image that the
\* call filtered
ResponseOfCall == gl_image(img_as_float(frame.filtered_spots), min_sigma)

\* C5: on a 2-D image the filtered image is the image minus its low pass of
\* high_pass_sigma; the detector is called on the filtered image with
\* max_sigma = blob_sigma, num_sigma = 1 and threshold = spot_threshold;
\* every row (row, col, scale) of it is returned as the coordinate
\* (row, col) and the size 3 * scale, and is a sample of the filtered
\* image's response that is over the threshold and not below any of its
\* neighbours, of the single scale, more than one sample from every other
\* row
C5_FilterThenDetect ==
    (DetectDone /\ NDim(frame.image.shape) = 2) =>
        LET shape == frame.image.shape
            low == ndi_gaussian_filter(frame.image, frame.high_pass_sigma)
            response == ResponseOfCall
            rows == frame.blobs_log
            at(i) == rows[i][1] * shape[2] + rows[i][2]
            level == ThresholdLevel(response.den, frame.spot_threshold)
        IN  /\ frame.filtered_spots.shape = shape
            /\ \A q \in 1 .. Len(frame.image.data) :
                  (frame.filtered_spots.data[q] + low.data[q]) % Modulus
                      = frame.image.data[q]
            /\ frame.detector
                  = DetectorCall(frame.filtered_spots, frame.blob_sigma, 1,
                                 frame.spot_threshold)
            /\ Len(spot_coords) = Len(rows)
            /\ Len(sizes) = Len(rows)
            /\ \A i \in 1 .. Len(rows) :
                  /\ Len(rows[i]) = 3
                  /\ spot_coords[i] = <<rows[i][1], rows[i][2]>>
                  /\ sizes[i] = 3 * rows[i][3]
                  /\ rows[i][1] \in 0 .. (shape[1] - 1)
                  /\ rows[i][2] \in 0 .. (shape[2] - 1)
                  /\ rows[i][3] = min_sigma
                  /\ \/ FixedLess(level, response.data[at(i) + 1])
                     \/ Near(level, response.data[at(i) + 1])
                  /\ \A q \in Footprint(shape, at(i)) :
                        \/ ~FixedLess(response.data[at(i) + 1],
                                      response.data[q + 1])
                        \/ Near(response.data[at(i) + 1], response.data[q + 1])
                  /\ \A j \in 1 .. Len(rows) :
                        j # i => SqDist(rows[i], rows[j]) > 1

\* a 2-D call whose detector found a blob on a filtered image that differs
\* from the raw one, at a sample where the raw image has no peak
C5_Witness ==
    /\ DetectDone
    /\ NDim(frame.image.shape) = 2
    /\ Len(frame.blobs_log) >= 1
    /\ frame.filtered_spots # frame.image
    /\ \E i \in 1 .. Len(spot_coords) :
          LET p == spot_coords[i][1] * frame.image.shape[2] + spot_coords[i][2]
          IN  \E q \in Footprint(frame.image.shape, p) :
                  frame.image.data[q + 1] > frame.image.data[p + 1]

IsConstant(image) ==
    \A q \in 1 .. Len(image.data) : image.data[q] = image.data[1]

\* C6: on an all-constant image, whatever the positive threshold, the call
\* returns, with an empty coordinate array and an empty size array
C6_ConstantImageNoSpots ==
    (pc # "detect" /\ IsConstant(spots)) =>
        /\ DetectDone
        /\ frame.image = spots
        /\ frame.spot_threshold.num > 0
        /\ frame.blobs_log = <<>>
        /\ spot_coords = <<>>
        /\ sizes = <<>>

\* a call on a constant image of several samples that is not black has
\* returned, with the smallest threshold
C6_Witness ==
    /\ DetectDone
    /\ IsConstant(frame.image)
    /\ Len(frame.image.data) > 1
    /\ frame.image.data[1] > 0
    /\ frame.spot_threshold = [num |-> 1, den |-> 10 ^ 9]
    /\ spot_coords = <<>>

Assigned == pc \in {"properties", "face_color", "add_points", "cmap",
                    "apply", "done"}

\* the assignment cell has run, to its end or to an exception
AssignRan == Assigned \/ pc = "failed"

LabelsOf(label_image) ==
    {label_image.data[q] : q \in 1 .. Len(label_image.data)} \ {0}

\* n times the centroid of label l, n its pixel count
CentroidSum(label_image, l, a) ==
    SumOver(label_image.shape, Region(label_image, l), a, 0)

PixelCount(label_image, l) == Cardinality(Region(label_image, l))

\* k^2 times the squared distance of point x to the centroid of label l,
\* where n is l's pixel count and k = n * m
ScaledSqDist(label_image, x, l, m) ==
    LET n == PixelCount(label_image, l)
        d0 == x[1] * n - CentroidSum(label_image, l, 1)
        d1 == x[2] * n - CentroidSum(label_image, l, 2)
    IN  (d0 * d0 + d1 * d1) * m * m

\* the centroid of l is nearer to x than the centroid of any other label
StrictlyNearest(label_image, x, l) ==
    \A l2 \in LabelsOf(label_image) \ {l} :
        ScaledSqDist(label_image, x, l, PixelCount(label_image, l2))
            < ScaledSqDist(label_image, x, l2, PixelCount(label_image, l))

\* C7: every spot gets the label of the nucleus whose centroid is nearest to
\* it, when one centroid is nearer than all the others
C7_NearestCentroidLabel ==
    Assigned =>
        /\ Len(nearest_nucleus_label) = Len(spot_coords)
        /\ \A i \in 1 .. Len(spot_coords) :
              \A l \in LabelsOf(nuclei_labels) :
                  StrictlyNearest(nuclei_labels, spot_coords[i], l)
                      => nearest_nucleus_label[i] = l

\* two nuclei; a spot lies exactly on the centroid of one and has its label,
\* and another spot is nearer to the other and has that one's label
C7_Witness ==
    /\ Assigned
    /\ Cardinality(LabelsOf(nuclei_labels)) = 2
    /\ \E i, j \in 1 .. Len(spot_coords) :
          \E l, l2 \in LabelsOf(nuclei_labels) :
              /\ l # l2
              /\ ScaledSqDist(nuclei_labels, spot_coords[i], l, 1) = 0
              /\ nearest_nucleus_label[i] = l
              /\ StrictlyNearest(nuclei_labels, spot_coords[j], l2)
              /\ nearest_nucleus_label[j] = l2

\* C9: without nuclei and with a spot, the assignment cell ends in the
\* library's exception: no spot has a label and no later cell has run
C9_NoNucleiFails ==
    (AssignRan /\ LabelsOf(nuclei_labels) = {} /\ spot_coords # <<>>) =>
        /\ pc = "failed"
        /\ error = "IndexError"
        /\ nearest_nucleus_label = <<>>
        /\ spot_properties = NoProperties
        /\ face_color = NoFaceColor
        /\ pts_colormap = NoMap
        /\ spots_cmap = NoMap

\* the assignment cell has failed on a label image without nuclei
C9_Witness ==
    /\ pc = "failed"
    /\ LabelsOf(nuclei_labels) = {}
    /\ Len(spot_coords) >= 1
    /\ error # ""

(***************************************************************************)
(* Properties of the color cycle, under SpecColor.                         *)
(***************************************************************************)
Colored == pc \in {"cmap", "apply", "done"}

\* the position at which label l first appears in the label array
FirstIndex(labels, l) ==
    CHOOSE i \in 1 .. Len(labels) :
        labels[i] = l /\ \A j \in 1 .. (i - 1) : labels[j] # l

\* the number of distinct labels that first appear before l
Rank(labels, l) ==
    Cardinality({labels[j] : j \in 1 .. (FirstIndex(labels, l) - 1)})

DistinctLabels(labels) == {labels[i] : i \in 1 .. Len(labels)}

\* C8: a label of first-appearance rank k has color k mod 10 of the palette:
\* up to 10 distinct labels have distinct colors, and the labels of ranks k
\* and k + 10 share theirs; the Labels layer gets the same color for every
\* label
C8_ColorCycle ==
    Colored =>
        LET labels == nearest_nucleus_label
            L == DistinctLabels(labels)
        IN  /\ L \subseteq DOMAIN pts_colormap
            /\ \A l \in L :
                  pts_colormap[l] = color_cycle[(Rank(labels, l) % 10) + 1]
            /\ Cardinality(L) <= 10 =>
                  \A l1, l2 \in L : l1 # l2 => pts_colormap[l1] # pts_colormap[l2]
            /\ \A l1, l2 \in L :
                  Rank(labels, l2) = Rank(labels, l1) + 10
                      => pts_colormap[l1] = pts_colormap[l2]
            /\ pc \in {"apply", "done"} =>
                  /\ L \subseteq DOMAIN spots_cmap
                  /\ \A l \in L : spots_cmap[l] = pts_colormap[l]
            /\ pc = "done" =>
                  /\ L \subseteq DOMAIN mask_layer.color
                  /\ \A l \in L : mask_layer.color[l] = pts_colormap[l]

\* more than 10 distinct labels, not in increasing order, colored and
\* applied to the Labels layer
C8_Witness ==
    /\ pc = "done"
    /\ Cardinality(DistinctLabels(nearest_nucleus_label)) > 10
    /\ \E i \in 1 .. (Len(nearest_nucleus_label) - 1) :
          nearest_nucleus_label[i] > nearest_nucleus_label[i + 1]
    /\ \E l1, l2 \in DistinctLabels(nearest_nucleus_label) :
          l1 # l2 /\ mask_layer.color[l1] = mask_layer.color[l2]
    /\ mask_layer.color[0] = Transparent

(***************************************************************************)
(* Order of the cells, under SpecSource.                                   *)
(***************************************************************************)
\* a step of the cell or stage named starts
Starts(cell) == pc = cell /\ pc' # pc

\* C11: the steps run one at a time in the notebook's order, and each starts
\* only when its inputs exist: the centroid step when the segmentation has
\* produced its label layer and the label image is read, the
\* nearest-neighbor match when the spot coordinates and the nucleus
\* centroids are produced, the coloring steps when the assignment is
C11_InputsBeforeSteps ==
    [][/\ Starts("labels") =>
              /\ MaskLayerName \in layers
              /\ mask_layer.data # NoArray
       /\ Starts("centroids") =>
              /\ MaskLayerName \in layers
              /\ "nuclei_labels" \in namespace
       /\ Starts("assign") =>
              {"spot_coords", "nuclei_centroids", "rp_table"}
                  \subseteq namespace
       /\ (\E cell \in {"properties", "face_color", "add_points", "cmap",
                        "apply"} : Starts(cell)) =>
              {"spot_coords", "nearest_nucleus_label"} \subseteq namespace
       /\ pc' # pc =>
              <<pc, pc'>> \in {<<"view", "filter">>,
                               <<"filter", "detect">>, <<"detect", "shapes">>,
                               <<"shapes", "run_segmentation">>,
                               <<"run_segmentation", "segment">>,
                               <<"segment", "labels">>, <<"labels", "centroids">>,
                               <<"centroids", "assign">>,
                               <<"assign", "properties">>, <<"assign", "failed">>,
                               <<"properties", "face_color">>,
                               <<"face_color", "add_points">>,
                               <<"add_points", "cmap">>,
                               <<"cmap", "apply">>, <<"apply", "done">>}
      ]_vars

(***************************************************************************)
(* The input image of the two functions, under Spec.                       *)
(***************************************************************************)
\* C12: no step changes the spots image: the array passed to
\* gaussian_high_pass and to detect_spots has, when the call returns, the
\* shape and the pixels it had before, and so it has in every later step
C12_InputUnchanged ==
    [][/\ spots'.shape = spots.shape
       /\ spots'.data = spots.data
       /\ filtered' # filtered => filtered'.image = spots
       /\ frame' # frame => frame'.image = spots
      ]_vars

\* both functions have been called on the image, with different sigmas, the
\* filter has returned an array that differs from it and the detector has
\* found a spot
C12_Witness ==
    /\ filtered # NoCall
    /\ frame # NoFrame
    /\ filtered.image = spots
    /\ frame.image = spots
    /\ filtered.high_passed_im # spots
    /\ frame.filtered_spots # spots
    /\ filtered.sigma # frame.high_pass_sigma
    /\ Len(spot_coords) >= 1

(***************************************************************************)
(* The labels the assignment produces, under Spec.                         *)
(***************************************************************************)
\* the values of the pixels of the label image that are not background
NucleusLabels == {nuclei_labels.data[q] : q \in 1 .. Len(nuclei_labels.data)} \ {0}

\* C13: with one nucleus or more, the label of every spot is the entry of
\* the table's label column at the index of its nearest centroid: a label
\* that occurs in the label image, positive, never the background 0,
\* whether or not the labels are 1 .. M
C13_LabelsFromTheMap ==
    (Assigned /\ NucleusLabels # {}) =>
        \A i \in 1 .. Len(spot_coords) :
            /\ nearest_nucleus_ind[i] \in 1 .. Len(rp_table.label)
            /\ nearest_nucleus_label[i] = rp_table.label[nearest_nucleus_ind[i]]
            /\ nearest_nucleus_label[i] \in NucleusLabels
            /\ nearest_nucleus_label[i] > 0

\* a spot has been assigned on a label image whose labels are not 1 .. M
C13_Witness ==
    /\ Assigned
    /\ NucleusLabels # {}
    /\ NucleusLabels # 1 .. Cardinality(NucleusLabels)
    /\ Len(spot_coords) >= 1
    /\ Len(nearest_nucleus_label) = Len(spot_coords)
    /\ \E i \in 1 .. Len(spot_coords) :
          nearest_nucleus_label[i] > Cardinality(NucleusLabels)

=============================================================================
